---- MODULE Spec2Model ----
(***************************************************************************)
(* AP election query server: the in-memory Dataset built by ElectionData   *)
(* (data_loader.py) and the nine POST handlers of mcp_server.py.           *)
(*                                                                         *)
(* Conventions of the model                                                *)
(*   - a DataFrame is [columns |-> <<names>>, rows |-> <<row>>]; a row is  *)
(*     a function from column name to cell value, and the dict that        *)
(*     row.to_dict() yields has its keys in column order (rowKeys);        *)
(*   - an AC name and a name fragment are sequences of one-character       *)
(*     strings; party codes, years and column names are strings;           *)
(*   - a percentage is an integer number of hundredths of a percent        *)
(*     (60.0 is 6000, 33.33 is 3333); Python's round(x, 2) and numpy's     *)
(*     .round(2) both round half to even; the quotient is taken exactly    *)
(*     (binary floating point error is not modelled);                      *)
(*   - a float64 cell of the pandas share column is [cls, v] with cls one  *)
(*     of "num", "inf", "nan";                                            *)
(*   - a handler's JSON payload is a record; {"error": msg} is             *)
(*     [error |-> msg kind]; an uncaught Python exception (HTTP 500) is    *)
(*     [raise |-> exception class].                                        *)
(***************************************************************************)
EXTENDS Integers, Sequences, FiniteSets, TLC

VARIABLES data, request, response

vars == <<data, request, response>>

(***************************************************************************)
(* Bounds of the model                                                     *)
(***************************************************************************)
MaxRows == 2
MaxVotes == 2
MaxList == 2
MaxBatch == 1
MaxFrag == 2

(***************************************************************************)
(* Generic helpers                                                         *)
(***************************************************************************)
Range(s) == {s[i] : i \in 1..Len(s)}

SeqsUpTo(S, n) == UNION {[1..k -> S] : k \in 0..n}

Min(a, b) == IF a < b THEN a ELSE b

Max0(a) == IF a < 0 THEN 0 ELSE a

RECURSIVE SumSeq(_)
SumSeq(s) == IF s = <<>> THEN 0 ELSE Head(s) + SumSeq(Tail(s))

\* Python's None
None == [none |-> TRUE]

(***************************************************************************)
(* str.upper() and str.strip() on the strings of the model                 *)
(***************************************************************************)
upper(s) ==
    CASE s = "tdp" -> "TDP"
      [] s = "ysrcp" -> "YSRCP"
      [] s = "ac_name" -> "AC_NAME"
      [] s = "total_votes" -> "TOTAL_VOTES"
      [] s = "ac_no" -> "AC_NO"
      [] OTHER -> s

strip(s) ==
    CASE s = "2019 " -> "2019"
      [] s = " TOTAL_VOTES" -> "TOTAL_VOTES"
      [] OTHER -> s

upperChar(c) ==
    CASE c = "a" -> "A"
      [] c = "b" -> "B"
      [] OTHER -> c

upperChars(s) == [i \in 1..Len(s) |-> upperChar(s[i])]

RECURSIVE lstripChars(_)
lstripChars(s) ==
    IF s # <<>> /\ Head(s) = " " THEN lstripChars(Tail(s)) ELSE s

RECURSIVE rstripChars(_)
rstripChars(s) ==
    IF s # <<>> /\ s[Len(s)] = " " THEN rstripChars(SubSeq(s, 1, Len(s) - 1)) ELSE s

stripChars(s) == rstripChars(lstripChars(s))

(***************************************************************************)
(* round(x, 2) of the exact quotient num/den (den > 0), in hundredths:     *)
(* round half to even, as Python's round and numpy's round do.             *)
(***************************************************************************)
round2(num, den) ==
    LET q == (2 * num + den) \div (2 * den)
        tie == (2 * num + den) % (2 * den) = 0
    IN  IF tie /\ q % 2 # 0 THEN q - 1 ELSE q

\* round(votes / total * 100, 2) if total else 0
share_pct(votes, total) ==
    IF total = 0 THEN 0 ELSE round2(votes * 10000, total)

(***************************************************************************)
(* The workbook read by pd.read_excel(path, sheet_name=None): a sequence   *)
(* of sheets [name, columns, rows] with the column names as typed.         *)
(***************************************************************************)
RESERVED == <<"AC_NO", "AC_NAME">>

Sheet(name, parties, rows) ==
    [name |-> name,
     columns |-> RESERVED \o parties \o <<" TOTAL_VOTES">>,
     rows |-> rows]

RawRow(ac, name, total, pv) ==
    [c \in {"AC_NO", "AC_NAME", " TOTAL_VOTES"} \cup DOMAIN pv |->
        CASE c = "AC_NO" -> ac
          [] c = "AC_NAME" -> name
          [] c = " TOTAL_VOTES" -> total
          [] OTHER -> pv[c]]

\* df.columns = [c.strip().upper() for c in df.columns]
normalize_columns(df) ==
    LET col(c) == upper(strip(c))
        raw(C) == CHOOSE c \in Range(df.columns) : col(c) = C
    IN  [columns |-> [i \in 1..Len(df.columns) |-> col(df.columns[i])],
         rows |-> [i \in 1..Len(df.rows) |->
                     [C \in {col(c) : c \in Range(df.columns)} |-> df.rows[i][raw(C)]]]]

\* ElectionData.__init__: self.data[str(year).strip()] = df, in sheet order
ElectionData(raw) ==
    [years |-> [i \in 1..Len(raw) |-> strip(raw[i].name)],
     df |-> [y \in {strip(raw[i].name) : i \in 1..Len(raw)} |->
                normalize_columns(
                    raw[CHOOSE i \in 1..Len(raw) : strip(raw[i].name) = y])]]

(***************************************************************************)
(* ElectionData accessors                                                  *)
(***************************************************************************)
get_years == data.years

get_year_df(year) ==
    IF year \in DOMAIN data.df THEN data.df[year] ELSE None

\* the rows of df whose AC_NO equals ac_no, in table order
rows_of(df, ac_no) ==
    SelectSeq(df.rows, LAMBDA r : r["AC_NO"] = ac_no)

find_ac(year, ac_no) ==
    LET df == get_year_df(year)
    IN  IF df = None THEN None
        ELSE IF rows_of(df, ac_no) = <<>> THEN None
        ELSE rows_of(df, ac_no)[1]

skip == {"AC_NO", "AC_NAME", "TOTAL_VOTES"}

get_parties(year) ==
    LET df == get_year_df(year)
    IN  IF df = None THEN <<>>
        ELSE SelectSeq(df.columns, LAMBDA c : c \notin skip)

(***************************************************************************)
(* mcp_server helpers                                                      *)
(***************************************************************************)
PARTIES_KEY == {"AC_NO", "AC_NAME", "TOTAL_VOTES"}

\* the keys of row.to_dict(), in column order
rowKeys(year) == get_year_df(year).columns

\* [k for k in row if k not in PARTIES_KEY]
_get_parties(keys) == SelectSeq(keys, LAMBDA k : k \notin PARTIES_KEY)

\* a max that keeps the last of several maximal elements
last_max(parties, row) ==
    parties[CHOOSE i \in 1..Len(parties) :
                /\ \A j \in 1..Len(parties) : row[parties[j]] <= row[parties[i]]
                /\ \A j \in (i + 1)..Len(parties) : row[parties[j]] < row[parties[i]]]

\* max(parties, key=lambda p: row.get(p, 0)): the first maximal element
first_max(parties, row) ==
    parties[CHOOSE i \in 1..Len(parties) :
                /\ \A j \in 1..Len(parties) : row[parties[j]] <= row[parties[i]]
                /\ \A j \in 1..(i - 1) : row[parties[j]] < row[parties[i]]]

\* the exception of `votes / total` when the cell is a str (the AC_NAME column):
\* `round(row[p] / total * 100, 2) if total else 0` divides only when total is truthy
divide_raises(column, total) == total # 0 /\ column = "AC_NAME"

Raise(exc) == [raise |-> exc]

(***************************************************************************)
(* POST /tools/get_ac_results                                              *)
(***************************************************************************)
get_ac_results(req) ==
    LET df == get_year_df(req.year)
    IN  IF df = None THEN [error |-> <<"Invalid year", req.year>>]
        ELSE [result |-> [ac \in Range(req.ac_list) |->
                 IF find_ac(req.year, ac) = None THEN [not_found |-> TRUE]
                 ELSE [row |-> find_ac(req.year, ac)]]]

(***************************************************************************)
(* POST /tools/get_winner                                                  *)
(***************************************************************************)
get_winner(req) ==
    LET row == find_ac(req.year, req.ac)
        parties == _get_parties(rowKeys(req.year))
        winner == first_max(parties, row)
        total == row["TOTAL_VOTES"]
        winner_votes == row[winner]
    IN  IF row = None THEN [error |-> <<"AC not found in year", req.year>>]
        ELSE IF parties = <<>> THEN [error |-> <<"No party data found", req.year>>]
        ELSE [ac_no |-> req.ac,
              ac_name |-> row["AC_NAME"],
              year |-> req.year,
              winner |-> winner,
              votes |-> winner_votes,
              vote_share_pct |-> share_pct(winner_votes, total),
              total_votes |-> total]

(***************************************************************************)
(* POST /tools/get_party_vote_share                                        *)
(***************************************************************************)
get_party_vote_share(req) ==
    LET row == find_ac(req.year, req.ac)
        party == upper(req.party)
        total == row["TOTAL_VOTES"]
        votes == row[party]
    IN  IF row = None THEN [error |-> <<"AC not found in year", req.year>>]
        ELSE IF party \notin DOMAIN row
        THEN [error |-> <<"Party not in dataset", party>>,
              available |-> _get_parties(rowKeys(req.year))]
        ELSE IF divide_raises(party, total) THEN Raise("TypeError")
        ELSE [ac_no |-> req.ac,
              ac_name |-> row["AC_NAME"],
              year |-> req.year,
              party |-> party,
              votes |-> votes,
              total_votes |-> total,
              vote_share_pct |-> share_pct(votes, total)]

(***************************************************************************)
(* POST /tools/compute_vote_swing                                          *)
(***************************************************************************)
\* an iteration that takes both shares over year_from's total
swing_entry_one_total(req, ac) ==
    LET party == upper(req.party)
        row_from == find_ac(req.year_from, ac)
        row_to == find_ac(req.year_to, ac)
        share_from == share_pct(row_from[party], row_from["TOTAL_VOTES"])
        share_to == share_pct(row_to[party], row_from["TOTAL_VOTES"])
    IN  IF row_from = None THEN [ac_no |-> ac, error |-> <<"Not found in", req.year_from>>]
        ELSE IF row_to = None THEN [ac_no |-> ac, error |-> <<"Not found in", req.year_to>>]
        ELSE IF party \notin DOMAIN row_from \/ party \notin DOMAIN row_to
        THEN [ac_no |-> ac, error |-> <<"Party not in dataset", party>>]
        ELSE [ac_no |-> ac,
              ac_name |-> row_from["AC_NAME"],
              party |-> party,
              vote_share_pct |-> [y \in {req.year_from, req.year_to} |->
                                     IF y = req.year_to THEN share_to ELSE share_from],
              swing_pct |-> round2(share_to - share_from, 1)]

\* one iteration of the loop over req.ac_list: the entry appended for ac.
\* The two share keys are f"vote_share_{year}_pct": one key when the years agree.
swing_entry(req, ac) ==
    LET party == upper(req.party)
        row_from == find_ac(req.year_from, ac)
        row_to == find_ac(req.year_to, ac)
        share_from == share_pct(row_from[party], row_from["TOTAL_VOTES"])
        share_to == share_pct(row_to[party], row_to["TOTAL_VOTES"])
    IN  IF row_from = None THEN [ac_no |-> ac, error |-> <<"Not found in", req.year_from>>]
        ELSE IF row_to = None THEN [ac_no |-> ac, error |-> <<"Not found in", req.year_to>>]
        ELSE IF party \notin DOMAIN row_from \/ party \notin DOMAIN row_to
        THEN [ac_no |-> ac, error |-> <<"Party not in dataset", party>>]
        ELSE [ac_no |-> ac,
              ac_name |-> row_from["AC_NAME"],
              party |-> party,
              vote_share_pct |-> [y \in {req.year_from, req.year_to} |->
                                     IF y = req.year_to THEN share_to ELSE share_from],
              swing_pct |-> round2(share_to - share_from, 1)]

\* whether the iteration for ac raises (a str cell divided by a non-zero total)
swing_raises(req, ac) ==
    LET party == upper(req.party)
        row_from == find_ac(req.year_from, ac)
        row_to == find_ac(req.year_to, ac)
    IN  /\ row_from # None
        /\ row_to # None
        /\ party \in DOMAIN row_from
        /\ party \in DOMAIN row_to
        /\ \/ divide_raises(party, row_from["TOTAL_VOTES"])
           \/ divide_raises(party, row_to["TOTAL_VOTES"])

compute_vote_swing(req) ==
    IF \E i \in 1..Len(req.ac_list) : swing_raises(req, req.ac_list[i])
    THEN Raise("TypeError")
    ELSE [swing_results |-> [i \in 1..Len(req.ac_list) |-> swing_entry(req, req.ac_list[i])],
          year_from |-> req.year_from,
          year_to |-> req.year_to]

(***************************************************************************)
(* POST /tools/compare_across_elections                                    *)
(***************************************************************************)
\* the order of Python's str comparison on the year strings of the model
year_key(y) ==
    CASE y = "1999" -> 1999
      [] y = "2014" -> 2014
      [] y = "2019" -> 2019
      [] OTHER -> 9999

\* the years as get_years lists them, in sheet order
insertion_order(years) ==
    years

\* sorted(years)
sorted(years) ==
    CHOOSE s \in [1..Len(years) -> Range(years)] :
        /\ \A y \in Range(years) :
              Cardinality({i \in 1..Len(s) : s[i] = y})
                  = Cardinality({i \in 1..Len(years) : years[i] = y})
        /\ \A i \in 1..(Len(s) - 1) : year_key(s[i]) <= year_key(s[i + 1])

\* the value stored at comparison[year]
compare_entry(year, ac) ==
    LET row == find_ac(year, ac)
        parties == _get_parties(rowKeys(year))
        total == row["TOTAL_VOTES"]
    IN  IF row = None THEN [error |-> <<"Data not found", year>>]
        ELSE [ac_name |-> row["AC_NAME"],
              winner |-> IF parties # <<>> THEN first_max(parties, row) ELSE "N/A",
              total_votes |-> total,
              party_results |-> [p \in Range(parties) |->
                                    [votes |-> row[p],
                                     share_pct |-> share_pct(row[p], total)]]]

\* comparison is a dict filled in the order of sorted(years): a sequence of
\* [year, entry] here
compare_across_elections(req) ==
    LET years == sorted(get_years)
    IN  [ac_no |-> req.ac,
         comparison |-> [i \in 1..Len(years) |->
                           [year |-> years[i], entry |-> compare_entry(years[i], req.ac)]]]

(***************************************************************************)
(* POST /tools/get_top_constituencies                                      *)
(***************************************************************************)
\* one cell of (df[party] / df["TOTAL_VOTES"] * 100).round(2): float64 division,
\* x/0 is inf for x > 0 and nan for x = 0
float_share(votes, total) ==
    IF total # 0 THEN [cls |-> "num", v |-> round2(votes * 10000, total)]
    ELSE IF votes > 0 THEN [cls |-> "inf", v |-> 0]
    ELSE [cls |-> "nan", v |-> 0]

\* a < b on float64 cells that are not nan
float_lt(a, b) ==
    IF a.cls = "inf" THEN FALSE
    ELSE IF b.cls = "inf" THEN TRUE
    ELSE a.v < b.v

\* the row orders df.sort_values(column, ascending=...) can produce: kind is the
\* default "quicksort", which is not stable, so rows with equal keys come in any
\* order; nan keys go last (na_position="last") in table order.
sort_values(keys, ascending) ==
    LET n == Len(keys)
        nans == {i \in 1..n : keys[i].cls = "nan"}
        k == n - Cardinality(nans)
    IN  {p \in [1..n -> 1..n] :
            /\ \A i, j \in 1..n : p[i] = p[j] => i = j
            /\ \A i \in 1..n : (i > k) <=> (p[i] \in nans)
            /\ \A i \in (k + 1)..(n - 1) : p[i] < p[i + 1]
            /\ \A i \in 1..(k - 1) :
                  IF ascending THEN ~float_lt(keys[p[i + 1]], keys[p[i]])
                  ELSE ~float_lt(keys[p[i]], keys[p[i + 1]])}

\* df.head(n): the first n rows, or all but the last -n rows when n is negative
head(s, n) ==
    IF n >= 0 THEN SubSeq(s, 1, Min(n, Len(s)))
    ELSE SubSeq(s, 1, Max0(Len(s) + n))

\* the handler's result when sort_values returns the row order `order`
get_top_constituencies(req, order) ==
    LET party == upper(req.party)
        df == get_year_df(req.year)
        keys == [i \in 1..Len(df.rows) |->
                    float_share(df.rows[i][party], df.rows[i]["TOTAL_VOTES"])]
        top == head(order, req.top_n)
    IN  IF df = None THEN [error |-> <<"Invalid year", req.year>>]
        ELSE IF party \notin Range(df.columns)
        THEN [error |-> <<"Party not found in", party, req.year>>]
        ELSE IF party = "AC_NAME" /\ df.rows # <<>> THEN Raise("TypeError")
        ELSE [party |-> party,
              year |-> req.year,
              order |-> IF req.bottom THEN "bottom" ELSE "top",
              results |-> [i \in 1..Len(top) |->
                  [ac_no |-> df.rows[top[i]]["AC_NO"],
                   ac_name |-> df.rows[top[i]]["AC_NAME"],
                   votes |-> df.rows[top[i]][party],
                   total_votes |-> df.rows[top[i]]["TOTAL_VOTES"],
                   vote_share_pct |-> keys[top[i]]]]]

\* the row orders the handler can sort into (one dummy order when it returns early)
top_orders(req) ==
    LET party == upper(req.party)
        df == get_year_df(req.year)
    IN  IF df = None THEN {<<>>}
        ELSE IF party \notin Range(df.columns) \/ party = "AC_NAME" THEN {<<>>}
        ELSE sort_values([i \in 1..Len(df.rows) |->
                             float_share(df.rows[i][party], df.rows[i]["TOTAL_VOTES"])],
                         req.bottom)

\* the table with the vote_share_pct column assigned
with_share_column(df, party) ==
    [columns |-> Append(df.columns, "vote_share_pct"),
     rows |-> [i \in 1..Len(df.rows) |->
                  [c \in DOMAIN df.rows[i] \cup {"vote_share_pct"} |->
                      IF c = "vote_share_pct"
                      THEN float_share(df.rows[i][party], df.rows[i]["TOTAL_VOTES"])
                      ELSE df.rows[i][c]]]]

\* an assignment of the share column to the table election_data holds: both
\* names denote the one table
assign_share_in_place(df, party) ==
    [loaded |-> with_share_column(df, party),
     working |-> with_share_column(df, party)]

\* df = df.copy(); df["vote_share_pct"] = ...: the table election_data holds and
\* the handler's working table afterwards
assign_share(df, party) ==
    [loaded |-> df,
     working |-> with_share_column(df, party)]

\* election_data.data when the handler has returned or raised
data_after_top(req) ==
    LET party == upper(req.party)
        df == get_year_df(req.year)
    IN  IF df = None THEN data
        ELSE IF party \notin Range(df.columns) THEN data
        ELSE IF party = "AC_NAME" /\ df.rows # <<>> THEN data
        ELSE [data EXCEPT !.df[req.year] = assign_share(df, party).loaded]

(***************************************************************************)
(* POST /tools/get_state_party_summary                                     *)
(***************************************************************************)
\* an idxmax that returns the label of the last column holding the row's maximum
idxmax_last(parties, row) ==
    LET m == CHOOSE v \in {row[parties[i]] : i \in 1..Len(parties)} :
                 \A i \in 1..Len(parties) : row[parties[i]] <= v
        last == CHOOSE i \in 1..Len(parties) :
                    row[parties[i]] = m /\ \A j \in (i + 1)..Len(parties) : row[parties[j]] # m
    IN  parties[last]

\* df[parties].idxmax(axis=1) for one row: the label of the first column holding
\* the row's maximum
idxmax(parties, row) ==
    LET m == CHOOSE v \in {row[parties[i]] : i \in 1..Len(parties)} :
                 \A i \in 1..Len(parties) : row[parties[i]] <= v
        first == CHOOSE i \in 1..Len(parties) :
                     row[parties[i]] = m /\ \A j \in 1..(i - 1) : row[parties[j]] # m
    IN  parties[first]

get_state_party_summary(req) ==
    LET df == get_year_df(req.year)
        parties == get_parties(req.year)
        total_votes == SumSeq([i \in 1..Len(df.rows) |-> df.rows[i]["TOTAL_VOTES"]])
        p_votes(p) == SumSeq([i \in 1..Len(df.rows) |-> df.rows[i][p]])
    IN  IF df = None THEN [error |-> <<"Invalid year", req.year>>]
        ELSE [year |-> req.year,
              total_votes_polled |-> total_votes,
              total_constituencies |-> Len(df.rows),
              party_summary |-> [p \in Range(parties) |->
                  [total_votes |-> p_votes(p),
                   vote_share_pct |-> share_pct(p_votes(p), total_votes),
                   seats_won |-> Cardinality({i \in 1..Len(df.rows) :
                                                 idxmax(parties, df.rows[i]) = p})]]]

(***************************************************************************)
(* ElectionData.search_by_name and POST /tools/search_constituency_by_name *)
(***************************************************************************)
\* re.search(pat, s) for a pattern of literal characters and ".", which matches
\* any character: Series.str.contains(pat) has regex=True by default
re_search(pat, s) ==
    \E start \in 1..(Len(s) - Len(pat) + 1) :
        \A i \in 1..Len(pat) : pat[i] = "." \/ pat[i] = s[start + i - 1]

\* the rows of one year that match, as {ac_no, ac_name, year}, in table order
year_matches(year, frag) ==
    LET hit == SelectSeq(data.df[year].rows,
                         LAMBDA r : re_search(frag, upperChars(r["AC_NAME"])))
    IN  [i \in 1..Len(hit) |->
            [ac_no |-> hit[i]["AC_NO"], ac_name |-> hit[i]["AC_NAME"], year |-> year]]

RECURSIVE all_matches(_, _)
all_matches(years, frag) ==
    IF years = <<>> THEN <<>>
    ELSE year_matches(Head(years), frag) \o all_matches(Tail(years), frag)

\* the `seen` loop: keep the first entry of each ac_no
RECURSIVE unique_by_ac(_, _)
unique_by_ac(results, seen) ==
    IF results = <<>> THEN <<>>
    ELSE IF Head(results).ac_no \in seen THEN unique_by_ac(Tail(results), seen)
    ELSE <<Head(results)>> \o unique_by_ac(Tail(results), seen \cup {Head(results).ac_no})

search_by_name(name_fragment) ==
    unique_by_ac(all_matches(data.years, upperChars(stripChars(name_fragment))), {})

search_constituency_by_name(req) ==
    LET results == search_by_name(req.name_fragment)
    IN  IF results = <<>>
        THEN [error |-> <<"No constituency found matching", req.name_fragment>>]
        ELSE [matches |-> results]

(***************************************************************************)
(* POST /tools/batch_query                                                 *)
(***************************************************************************)
\* ac_data for one found row
batch_ac_data(req, row) ==
    LET total == row["TOTAL_VOTES"]
    IN  [ac_name |-> row["AC_NAME"],
         total_votes |-> total,
         parties |-> [p \in {upper(req.parties[i]) : i \in 1..Len(req.parties)} |->
             IF p \in DOMAIN row
             THEN [votes |-> row[p], vote_share_pct |-> share_pct(row[p], total)]
             ELSE [not_available |-> TRUE]]]

batch_raises(req) ==
    \E y \in Range(req.years), ac \in Range(req.ac_list), party \in Range(req.parties) :
        /\ find_ac(y, ac) # None
        /\ upper(party) \in DOMAIN find_ac(y, ac)
        /\ divide_raises(upper(party), find_ac(y, ac)["TOTAL_VOTES"])

batch_query(req) ==
    IF batch_raises(req) THEN Raise("TypeError")
    ELSE [output |-> [y \in Range(req.years) |-> [ac \in Range(req.ac_list) |->
             IF find_ac(y, ac) = None THEN [not_found |-> TRUE]
             ELSE batch_ac_data(req, find_ac(y, ac))]]]

(***************************************************************************)
(* The workbooks the model loads                                           *)
(***************************************************************************)
AcNos == 1..MaxRows
VoteVals == 0..MaxVotes
TotalVals == {0, MaxVotes + 1}
NamePool == {<<"A", "b">>, <<"B", ".">>, <<"b", "a">>}
Layouts == {<<"ysrcp", "TDP">>, <<"TDP">>, <<>>}

FixedName(ac) == IF ac = 1 THEN <<"A", "b">> ELSE <<"B", ".">>

\* AC_NO is a key: no two rows of a sheet share it
DistinctAc(rows) ==
    \A i, j \in 1..Len(rows) : rows[i]["AC_NO"] = rows[j]["AC_NO"] => i = j

\* rows with every vote count and total, the name fixed by the AC
VoteRows(parties) ==
    {RawRow(ac, FixedName(ac), total, pv) :
        ac \in AcNos, total \in TotalVals, pv \in [Range(parties) -> VoteVals]}

\* rows with every name, the votes fixed
NameRows ==
    {RawRow(ac, name, MaxVotes + 1, [p \in {"TDP"} |-> 1]) : ac \in AcNos, name \in NamePool}

\* the 2019 sheets the two-year workbooks pair a 2014 sheet with
Sheets2019 ==
    {Sheet("2019 ", <<"TDP">>,
           <<RawRow(1, <<"A", "b">>, MaxVotes + 1, [p \in {"TDP"} |-> 1])>>),
     Sheet("2019 ", <<"ysrcp", "TDP">>,
           <<RawRow(1, <<"A", "b">>, MaxVotes + 1, [p \in {"ysrcp", "TDP"} |-> MaxVotes])>>)}

\* either order of two sheets
BothOrders(s, t) == {<<s, t>>, <<t, s>>}

\* 2014: AC 1 "Ab" TDP 600, YSRCP 400 of 1000; 2019: TDP 500, YSRCP 500 of 1000
FixtureBook ==
    <<Sheet("2014", <<"TDP", "ysrcp">>,
            <<RawRow(1, <<"A", "b">>, 1000, [p \in {"TDP", "ysrcp"} |->
                                                IF p = "TDP" THEN 600 ELSE 400])>>),
      Sheet("2019 ", <<"TDP", "ysrcp">>,
            <<RawRow(1, <<"A", "b">>, 1000, [p \in {"TDP", "ysrcp"} |-> 500])>>)>>

\* one sheet, every layout, up to MaxRows rows of every vote count
LoadOneYear ==
    \E L \in Layouts, k \in 0..MaxRows :
        \E rows \in [1..k -> VoteRows(L)] :
            /\ DistinctAc(rows)
            /\ data = ElectionData(<<Sheet("2014", L, rows)>>)

\* two sheets in either order: a 2014 sheet of at most one row, every vote count
LoadTwoYears ==
    \E L \in Layouts \ {<<>>}, k \in 0..1, s19 \in Sheets2019 :
        \E rows \in [1..k -> VoteRows(L)] :
            \E raw \in BothOrders(Sheet("2014", L, rows), s19) :
                data = ElectionData(raw)

\* two sheets in either order, every name
LoadNames ==
    \E k14 \in 0..MaxRows, k19 \in 0..1 :
        \E r14 \in [1..k14 -> NameRows], r19 \in [1..k19 -> NameRows] :
            /\ DistinctAc(r14)
            /\ \E raw \in BothOrders(Sheet("2014", <<"TDP">>, r14),
                                     Sheet("2019 ", <<"TDP">>, r19)) :
                  data = ElectionData(raw)

LoadFixture == data = ElectionData(FixtureBook)

\* two sheets in either order: an empty 2014 sheet of every layout and a 2019 sheet
LoadEmpty2014 ==
    \E L \in Layouts, s19 \in Sheets2019 :
        \E raw \in BothOrders(Sheet("2014", L, <<>>), s19) :
            data = ElectionData(raw)

(***************************************************************************)
(* The arguments of the requests                                           *)
(***************************************************************************)
AcArgs == 1..MaxRows
YearArgs == {"2014", "2019", "1999"}
PartyArgs == {"TDP", "ysrcp", "JSP", "AC_NO", "ac_name", "TOTAL_VOTES"}
TopNArgs == (0 - MaxRows)..MaxRows
FragChars == {"a", "B", ".", " "}

Idle == [op |-> "idle"]

(***************************************************************************)
(* The server: loaded once, then one request at a time                     *)
(***************************************************************************)
Init ==
    /\ LoadOneYear \/ LoadTwoYears \/ LoadNames \/ LoadFixture
    /\ request = Idle
    /\ response = Idle

Post_get_ac_results ==
    /\ request = Idle
    /\ \E ac_list \in SeqsUpTo(AcArgs, MaxList), year \in YearArgs :
          /\ request' = [op |-> "get_ac_results", ac_list |-> ac_list, year |-> year]
          /\ response' = get_ac_results(request')
    /\ UNCHANGED data

Post_get_winner ==
    /\ request = Idle
    /\ \E ac \in AcArgs, year \in YearArgs :
          /\ request' = [op |-> "get_winner", ac |-> ac, year |-> year]
          /\ response' = get_winner(request')
    /\ UNCHANGED data

Post_get_party_vote_share ==
    /\ request = Idle
    /\ \E ac \in AcArgs, year \in YearArgs, party \in PartyArgs :
          /\ request' = [op |-> "get_party_vote_share", ac |-> ac, year |-> year,
                         party |-> party]
          /\ response' = get_party_vote_share(request')
    /\ UNCHANGED data

Post_compute_vote_swing ==
    /\ request = Idle
    /\ \E ac_list \in SeqsUpTo(AcArgs, MaxList), party \in PartyArgs,
          year_from \in YearArgs, year_to \in YearArgs :
          /\ request' = [op |-> "compute_vote_swing", ac_list |-> ac_list, party |-> party,
                         year_from |-> year_from, year_to |-> year_to]
          /\ response' = compute_vote_swing(request')
    /\ UNCHANGED data

Post_compare_across_elections ==
    /\ request = Idle
    /\ \E ac \in AcArgs :
          /\ request' = [op |-> "compare_across_elections", ac |-> ac]
          /\ response' = compare_across_elections(request')
    /\ UNCHANGED data

Post_get_top_constituencies ==
    /\ request = Idle
    /\ \E party \in PartyArgs, year \in YearArgs, top_n \in TopNArgs, bottom \in BOOLEAN :
          /\ request' = [op |-> "get_top_constituencies", party |-> party, year |-> year,
                         top_n |-> top_n, bottom |-> bottom]
          /\ \E order \in top_orders(request') :
                response' = get_top_constituencies(request', order)
          /\ data' = data_after_top(request')

Post_get_state_party_summary ==
    /\ request = Idle
    /\ \E year \in YearArgs :
          /\ request' = [op |-> "get_state_party_summary", year |-> year]
          /\ response' = get_state_party_summary(request')
    /\ UNCHANGED data

Post_search_constituency_by_name ==
    /\ request = Idle
    /\ \E name_fragment \in SeqsUpTo(FragChars, MaxFrag) :
          /\ request' = [op |-> "search_constituency_by_name",
                         name_fragment |-> name_fragment]
          /\ response' = search_constituency_by_name(request')
    /\ UNCHANGED data

Post_batch_query ==
    /\ request = Idle
    /\ \E ac_list \in SeqsUpTo(AcArgs, MaxList), parties \in SeqsUpTo(PartyArgs, MaxBatch),
          years \in SeqsUpTo(YearArgs, MaxBatch) :
          /\ request' = [op |-> "batch_query", ac_list |-> ac_list, parties |-> parties,
                         years |-> years]
          /\ response' = batch_query(request')
    /\ UNCHANGED data

\* the response is sent; the server takes the next request
Respond ==
    /\ request # Idle
    /\ request' = Idle
    /\ response' = Idle
    /\ UNCHANGED data

Next ==
    \/ Post_get_ac_results
    \/ Post_get_winner
    \/ Post_get_party_vote_share
    \/ Post_compute_vote_swing
    \/ Post_compare_across_elections
    \/ Post_get_top_constituencies
    \/ Post_get_state_party_summary
    \/ Post_search_constituency_by_name
    \/ Post_batch_query
    \/ Respond

Spec == Init /\ [][Next]_vars

\* the server under requests to one endpoint only
NextWinner == Post_get_winner \/ Respond

SpecWinner == Init /\ [][NextWinner]_vars

NextSummary == Post_get_state_party_summary \/ Respond

SpecSummary == Init /\ [][NextSummary]_vars

NextSwing == Post_compute_vote_swing \/ Respond

\* the two-year workbooks only
InitSwing ==
    /\ LoadTwoYears \/ LoadFixture
    /\ request = Idle
    /\ response = Idle

SpecSwing == InitSwing /\ [][NextSwing]_vars

NextCompare == Post_compare_across_elections \/ Respond

SpecCompare == Init /\ [][NextCompare]_vars

\* the server under requests to every endpoint, on the fixture and on the
\* workbooks with an empty 2014 sheet
InitFrame ==
    /\ LoadFixture \/ LoadEmpty2014
    /\ request = Idle
    /\ response = Idle

SpecFrame == InitFrame /\ [][Next]_vars

(***************************************************************************)
(* Vocabulary of the properties, stated on the loaded tables themselves    *)
(***************************************************************************)
Loaded(year) == year \in DOMAIN data.df

ReservedNames == {"AC_NO", "AC_NAME", "TOTAL_VOTES"}

\* positions of the party columns of a loaded year, in column order
PartyPositions(year) ==
    {i \in 1..Len(data.df[year].columns) : data.df[year].columns[i] \notin ReservedNames}

PartyNames(year) == {data.df[year].columns[i] : i \in PartyPositions(year)}

\* the rows of a loaded year with the given AC number
RowsFor(year, ac) ==
    {r \in Range(data.df[year].rows) : r["AC_NO"] = ac}

HasAc(year, ac) == Loaded(year) /\ RowsFor(year, ac) # {}

\* the percentage votes/total*100 to the nearest hundredth (ties to even), and 0
\* when total is 0
NearestPct(votes, total) ==
    IF total = 0 THEN 0
    ELSE CHOOSE q \in {(10000 * votes) \div total, (10000 * votes) \div total + 1} :
            /\ 2 * (q * total - 10000 * votes) <= total
            /\ 2 * (10000 * votes - q * total) <= total
            /\ (2 * (q * total - 10000 * votes) = total => q % 2 = 0)
            /\ (2 * (10000 * votes - q * total) = total => q % 2 = 0)

IsError(resp) == "error" \in DOMAIN resp

(***************************************************************************)
(* C1: for every loaded year and every row of it that has at least one     *)
(* party column, get_winner of that row's AC returns votes equal to the    *)
(* largest vote count over the row's party columns, and the winner is the  *)
(* first party column, in column order, that holds this largest count.     *)
(***************************************************************************)
C1_WinnerIsFirstMaximum ==
    (request.op = "get_winner" /\ Loaded(request.year)) =>
        \A r \in RowsFor(request.year, request.ac) :
            PartyPositions(request.year) # {} =>
                /\ "winner" \in DOMAIN response
                /\ \A i \in PartyPositions(request.year) :
                      r[data.df[request.year].columns[i]] <= response.votes
                /\ \E i \in PartyPositions(request.year) :
                      /\ data.df[request.year].columns[i] = response.winner
                      /\ r[response.winner] = response.votes
                      /\ \A j \in PartyPositions(request.year) :
                            j < i => r[data.df[request.year].columns[j]] < response.votes

\* a winner returned for a row whose two party columns tie on a non-zero count
C1_Witness ==
    /\ request.op = "get_winner"
    /\ "winner" \in DOMAIN response
    /\ response.winner = "YSRCP"
    /\ response.votes > 0
    /\ \E r \in RowsFor(request.year, request.ac) : r["TDP"] = r["YSRCP"]

(***************************************************************************)
(* C2: no operation treats a reserved column as a party code: for a party  *)
(* argument whose uppercase form is AC_NO, AC_NAME or TOTAL_VOTES,         *)
(* get_party_vote_share of an existing AC returns the party-not-found      *)
(* error, every compute_vote_swing entry is an error entry, and            *)
(* batch_query reports the party as not available.                         *)
(***************************************************************************)
C2_ReservedColumnIsNoParty ==
    /\ (/\ request.op = "get_party_vote_share"
        /\ upper(request.party) \in ReservedNames
        /\ HasAc(request.year, request.ac))
            => (IsError(response) /\ response.error[1] = "Party not in dataset")
    /\ (request.op = "compute_vote_swing" /\ upper(request.party) \in ReservedNames)
            => /\ "swing_results" \in DOMAIN response
               /\ \A i \in 1..Len(response.swing_results) :
                     IsError(response.swing_results[i])
    /\ request.op = "batch_query"
            => /\ "output" \in DOMAIN response
               /\ \A y \in Range(request.years), ac \in Range(request.ac_list),
                     i \in 1..Len(request.parties) :
                     (HasAc(y, ac) /\ upper(request.parties[i]) \in ReservedNames)
                         => "not_available"
                                \in DOMAIN response.output[y][ac].parties[upper(request.parties[i])]

(***************************************************************************)
(* C3: compute_vote_swing never fails as a whole: swing_results has one    *)
(* entry per element of ac_list, in input order; an AC missing in either   *)
(* year, or whose row has no column for the party in either year, yields   *)
(* an entry of ac_no and error only, and every other AC yields an entry    *)
(* with its shares and swing.                                              *)
(***************************************************************************)
C3_SwingContainsFailures ==
    request.op = "compute_vote_swing" =>
        /\ "swing_results" \in DOMAIN response
        /\ Len(response.swing_results) = Len(request.ac_list)
        /\ \A i \in 1..Len(request.ac_list) :
              LET e == response.swing_results[i]
                  ac == request.ac_list[i]
                  bad == \/ ~HasAc(request.year_from, ac)
                         \/ ~HasAc(request.year_to, ac)
                         \/ upper(request.party) \notin Range(data.df[request.year_from].columns)
                         \/ upper(request.party) \notin Range(data.df[request.year_to].columns)
              IN  /\ e.ac_no = ac
                  /\ bad => DOMAIN e = {"ac_no", "error"}
                  /\ ~bad => {"vote_share_pct", "swing_pct"} \subseteq DOMAIN e

(***************************************************************************)
(* C4: get_top_constituencies for a loaded year and a party column of it   *)
(* returns min(top_n, rowCount) rows for top_n >= 0 and no row for         *)
(* top_n <= 0, negative top_n included.                                    *)
(***************************************************************************)
C4_TopCount ==
    (/\ request.op = "get_top_constituencies"
     /\ Loaded(request.year)
     /\ upper(request.party) \in PartyNames(request.year))
        => /\ "results" \in DOMAIN response
           /\ request.top_n >= 0 =>
                 Len(response.results) = Min(request.top_n, Len(data.df[request.year].rows))
           /\ request.top_n <= 0 => Len(response.results) = 0

\* position of the row with the given AC number in a loaded year's table
RowPosition(year, ac) ==
    CHOOSE i \in 1..Len(data.df[year].rows) : data.df[year].rows[i]["AC_NO"] = ac

RECURSIVE SumOver(_, _)
SumOver(f, S) ==
    IF S = {} THEN 0
    ELSE LET x == CHOOSE x \in S : TRUE IN f[x] + SumOver(f, S \ {x})

(***************************************************************************)
(* C5: get_top_constituencies returns its rows ordered by the party's vote *)
(* share (votes/total*100 to two decimals, 0 for a zero total), descending *)
(* when bottom is false and ascending when it is true, and rows of equal   *)
(* share keep the relative order they have in the year's table.            *)
(***************************************************************************)
C5_TopOrderedAndStable ==
    (/\ request.op = "get_top_constituencies"
     /\ Loaded(request.year)
     /\ upper(request.party) \in PartyNames(request.year)
     /\ "results" \in DOMAIN response)
        => \A i, j \in 1..Len(response.results) :
              LET a == response.results[i]
                  b == response.results[j]
                  sa == NearestPct(a.votes, a.total_votes)
                  sb == NearestPct(b.votes, b.total_votes)
              IN  i < j =>
                     /\ request.bottom => sa <= sb
                     /\ ~request.bottom => sa >= sb
                     /\ sa = sb => RowPosition(request.year, a.ac_no)
                                       < RowPosition(request.year, b.ac_no)

(***************************************************************************)
(* C6: in every operation that reports a percentage, a row or year whose   *)
(* total_votes is 0 yields a share of exactly 0 and the operation returns  *)
(* normally; the share get_top_constituencies reports for a row is the     *)
(* share get_party_vote_share reports for the same year, AC and party.     *)
(***************************************************************************)
C6_ZeroTotalGivesZeroShare ==
    /\ (request.op = "get_winner" /\ "winner" \in DOMAIN response /\ response.total_votes = 0)
            => response.vote_share_pct = 0
    /\ (/\ request.op = "get_party_vote_share"
        /\ HasAc(request.year, request.ac)
        /\ upper(request.party) \in PartyNames(request.year)
        /\ \A r \in RowsFor(request.year, request.ac) : r["TOTAL_VOTES"] = 0)
            => ("vote_share_pct" \in DOMAIN response /\ response.vote_share_pct = 0)
    /\ (request.op = "compute_vote_swing" /\ "swing_results" \in DOMAIN response)
            => \A i \in 1..Len(response.swing_results) :
                  LET e == response.swing_results[i]
                  IN  "vote_share_pct" \in DOMAIN e =>
                         \A y \in DOMAIN e.vote_share_pct :
                            (\A r \in RowsFor(y, e.ac_no) : r["TOTAL_VOTES"] = 0)
                                => e.vote_share_pct[y] = 0
    /\ request.op = "compare_across_elections"
            => \A i \in 1..Len(response.comparison) :
                  LET e == response.comparison[i].entry
                  IN  ("total_votes" \in DOMAIN e /\ e.total_votes = 0) =>
                         \A p \in DOMAIN e.party_results : e.party_results[p].share_pct = 0
    /\ (/\ request.op = "get_top_constituencies"
        /\ Loaded(request.year)
        /\ upper(request.party) \in PartyNames(request.year))
            => /\ "results" \in DOMAIN response
               /\ \A i \in 1..Len(response.results) :
                     LET e == response.results[i]
                         same == get_party_vote_share(
                                     [ac |-> e.ac_no, year |-> request.year,
                                      party |-> request.party])
                     IN  /\ e.vote_share_pct.cls = "num"
                         /\ e.vote_share_pct.v = same.vote_share_pct
                         /\ e.total_votes = 0 => e.vote_share_pct.v = 0
    /\ (/\ request.op = "get_state_party_summary"
        /\ "party_summary" \in DOMAIN response
        /\ response.total_votes_polled = 0)
            => \A p \in DOMAIN response.party_summary :
                  response.party_summary[p].vote_share_pct = 0
    /\ (request.op = "batch_query" /\ "output" \in DOMAIN response)
            => \A y \in DOMAIN response.output :
                  \A ac \in DOMAIN response.output[y] :
                     LET e == response.output[y][ac]
                     IN  ("total_votes" \in DOMAIN e /\ e.total_votes = 0) =>
                            \A p \in DOMAIN e.parties :
                               "vote_share_pct" \in DOMAIN e.parties[p]
                                   => e.parties[p].vote_share_pct = 0

(***************************************************************************)
(* C7: for every loaded year, get_state_party_summary reports for each     *)
(* party a seats_won equal to the number of rows of the year for which     *)
(* get_winner returns that party, and the seats_won of all parties sum to  *)
(* total_constituencies.                                                   *)
(***************************************************************************)
SeatsMatchWinners ==
    \A p \in PartyNames(request.year) :
        /\ p \in DOMAIN response.party_summary
        /\ response.party_summary[p].seats_won
              = Cardinality({i \in 1..Len(data.df[request.year].rows) :
                    LET w == get_winner([ac |-> data.df[request.year].rows[i]["AC_NO"],
                                         year |-> request.year])
                    IN  "winner" \in DOMAIN w /\ w.winner = p})

SeatsSumToRows ==
    SumOver([p \in DOMAIN response.party_summary |-> response.party_summary[p].seats_won],
            DOMAIN response.party_summary)
        = response.total_constituencies

\* C7 as stated: in every loaded year the seats_won match get_winner row by row
\* and sum to total_constituencies
C7_SeatsSumForEveryYear ==
    (request.op = "get_state_party_summary" /\ Loaded(request.year))
        => /\ "party_summary" \in DOMAIN response
           /\ SeatsMatchWinners
           /\ SeatsSumToRows

\* C7 as amended: in every loaded year the seats_won match get_winner row by row
\* and total_constituencies is the row count; in every loaded year that has at
\* least one party column the seats_won sum to total_constituencies
C7_SeatsSumWithPartyColumns ==
    (request.op = "get_state_party_summary" /\ Loaded(request.year))
        => /\ "party_summary" \in DOMAIN response
           /\ response.total_constituencies = Len(data.df[request.year].rows)
           /\ SeatsMatchWinners
           /\ PartyNames(request.year) # {} => SeatsSumToRows

\* a summary of two rows, one won outright and one won on the tie-break
C7_Witness ==
    /\ request.op = "get_state_party_summary"
    /\ "party_summary" \in DOMAIN response
    /\ response.total_constituencies = 2
    /\ DOMAIN response.party_summary = {"TDP", "YSRCP"}
    /\ response.party_summary["TDP"].seats_won = 1
    /\ response.party_summary["YSRCP"].seats_won = 1
    /\ \E r \in Range(data.df[request.year].rows) : r["TDP"] = r["YSRCP"]

(***************************************************************************)
(* C8: every operation that takes a year rejects a year that is not loaded *)
(* with an error payload that names the year as invalid; it never answers  *)
(* as it does for a loaded year that lacks the constituency.               *)
(***************************************************************************)
InvalidYearError(resp) == IsError(resp) /\ resp.error[1] = "Invalid year"

C8_UnknownYearRejected ==
    /\ (/\ request.op \in {"get_ac_results", "get_winner", "get_party_vote_share",
                           "get_top_constituencies", "get_state_party_summary"}
        /\ ~Loaded(request.year))
            => InvalidYearError(response)
    /\ (/\ request.op = "compute_vote_swing"
        /\ ~(Loaded(request.year_from) /\ Loaded(request.year_to)))
            => \/ InvalidYearError(response)
               \/ /\ "swing_results" \in DOMAIN response
                  /\ \A i \in 1..Len(response.swing_results) :
                        InvalidYearError(response.swing_results[i])
    /\ (request.op = "batch_query" /\ \E y \in Range(request.years) : ~Loaded(y))
            => \/ InvalidYearError(response)
               \/ /\ "output" \in DOMAIN response
                  /\ \A y \in Range(request.years) :
                        ~Loaded(y) => \A ac \in DOMAIN response.output[y] :
                                         InvalidYearError(response.output[y][ac])

(***************************************************************************)
(* C9: for every AC present in both years whose rows both have the party   *)
(* column, compute_vote_swing returns swing_pct = share(year_to) minus     *)
(* share(year_from), each share being votes/total_votes*100 to two         *)
(* decimals of that year's row, 0 for a zero total; TDP 600/1000 then      *)
(* 500/1000 gives -10.0.                                                   *)
(***************************************************************************)
C9_SwingIsShareDifference ==
    (/\ request.op = "compute_vote_swing"
     /\ Loaded(request.year_from)
     /\ Loaded(request.year_to)
     /\ upper(request.party) \in PartyNames(request.year_from) \cap PartyNames(request.year_to))
        => /\ "swing_results" \in DOMAIN response
           /\ \A i \in 1..Len(request.ac_list) :
                 \A rf \in RowsFor(request.year_from, request.ac_list[i]) :
                    \A rt \in RowsFor(request.year_to, request.ac_list[i]) :
                       LET e == response.swing_results[i]
                           p == upper(request.party)
                       IN  /\ "swing_pct" \in DOMAIN e
                           /\ e.swing_pct = NearestPct(rt[p], rt["TOTAL_VOTES"])
                                                - NearestPct(rf[p], rf["TOTAL_VOTES"])

\* TDP 600/1000 in 2014 and 500/1000 in 2019: swing -10.0
C9_Witness ==
    /\ request.op = "compute_vote_swing"
    /\ request.year_from = "2014"
    /\ request.year_to = "2019"
    /\ upper(request.party) = "TDP"
    /\ "swing_results" \in DOMAIN response
    /\ Len(response.swing_results) = 1
    /\ "swing_pct" \in DOMAIN response.swing_results[1]
    /\ response.swing_results[1].vote_share_pct["2014"] = 6000
    /\ response.swing_results[1].vote_share_pct["2019"] = 5000
    /\ response.swing_results[1].swing_pct = 0 - 1000

(***************************************************************************)
(* C10: search_by_name(fragment) returns exactly one entry for each ac_no  *)
(* that has, in some loaded year, a row whose ac_name contains the         *)
(* fragment as a case-insensitive literal substring, and no other entry;   *)
(* the entry of an ac_no is its first matching row in scan order (years in *)
(* insertion order, rows in table order); no match gives an empty list.    *)
(***************************************************************************)
\* frag occurs in s, character for character, ignoring case
ContainsIgnoringCase(s, frag) ==
    \E start \in 1..(Len(s) - Len(frag) + 1) :
        \A i \in 1..Len(frag) : upperChar(frag[i]) = upperChar(s[start + i - 1])

\* scan positions <<k, i>>: row i of the k-th loaded year
ScanBefore(a, b) == a[1] < b[1] \/ (a[1] = b[1] /\ a[2] < b[2])

ScanRow(pos) == data.df[data.years[pos[1]]].rows[pos[2]]

MatchPositions(frag) ==
    {pos \in (1..Len(data.years)) \X (1..MaxRows + 1) :
        /\ pos[2] <= Len(data.df[data.years[pos[1]]].rows)
        /\ ContainsIgnoringCase(ScanRow(pos)["AC_NAME"], frag)}

C10_SearchLiteralSubstring ==
    request.op = "search_constituency_by_name" =>
        LET found == IF IsError(response) THEN <<>> ELSE response.matches
            hits == MatchPositions(request.name_fragment)
        IN  /\ {found[i].ac_no : i \in 1..Len(found)} = {ScanRow(pos)["AC_NO"] : pos \in hits}
            /\ \A i, j \in 1..Len(found) : found[i].ac_no = found[j].ac_no => i = j
            /\ \A i \in 1..Len(found) :
                  \E pos \in hits :
                     /\ ScanRow(pos)["AC_NO"] = found[i].ac_no
                     /\ ScanRow(pos)["AC_NAME"] = found[i].ac_name
                     /\ data.years[pos[1]] = found[i].year
                     /\ \A other \in hits :
                           ScanRow(other)["AC_NO"] = found[i].ac_no
                               => ~ScanBefore(other, pos)

(***************************************************************************)
(* C11: compare_across_elections never returns a top-level error: its      *)
(* comparison has exactly one entry for every loaded year and none for any *)
(* other, in ascending order of the year strings; where the AC has a row   *)
(* in the year, the entry carries the votes and the share (nearest         *)
(* hundredth, 0 on a zero total) of exactly the party columns of that row  *)
(* and, when there is a party column, the first column holding the largest *)
(* count as winner; where the AC has no row, the entry is the              *)
(* "Data not found" marker.                                                *)
(***************************************************************************)
\* the year strings of the model in ascending str order
YearsAscending == <<"1999", "2014", "2019">>

YearRank(y) == CHOOSE i \in 1..Len(YearsAscending) : YearsAscending[i] = y

C11_CompareCoversEveryYear ==
    request.op = "compare_across_elections" =>
        /\ ~IsError(response)
        /\ "comparison" \in DOMAIN response
        /\ LET c == response.comparison
           IN  /\ \A y \in DOMAIN data.df :
                     Cardinality({i \in 1..Len(c) : c[i].year = y}) = 1
               /\ \A i \in 1..Len(c) : Loaded(c[i].year)
               /\ \A i, j \in 1..Len(c) :
                     i < j => YearRank(c[i].year) < YearRank(c[j].year)
               /\ \A i \in 1..Len(c) :
                     LET y == c[i].year
                         e == c[i].entry
                     IN  IF HasAc(y, request.ac)
                         THEN \A r \in RowsFor(y, request.ac) :
                                 /\ ~IsError(e)
                                 /\ DOMAIN e.party_results = PartyNames(y)
                                 /\ \A p \in PartyNames(y) :
                                       /\ e.party_results[p].votes = r[p]
                                       /\ e.party_results[p].share_pct
                                              = NearestPct(r[p], r["TOTAL_VOTES"])
                                 /\ PartyPositions(y) # {} =>
                                       \E k \in PartyPositions(y) :
                                           /\ data.df[y].columns[k] = e.winner
                                           /\ \A m \in PartyPositions(y) :
                                                 /\ r[data.df[y].columns[m]] <= r[e.winner]
                                                 /\ m < k =>
                                                       r[data.df[y].columns[m]] < r[e.winner]
                         ELSE /\ IsError(e)
                              /\ e.error[1] = "Data not found"

\* a workbook whose 2019 sheet comes first, compared for an AC that has a row in
\* 2019 only: a marker for 2014, then a winner with a non-zero share for 2019
C11_Witness ==
    /\ request.op = "compare_across_elections"
    /\ data.years = <<"2019", "2014">>
    /\ ~HasAc("2014", request.ac)
    /\ HasAc("2019", request.ac)
    /\ Len(response.comparison) = 2
    /\ IsError(response.comparison[1].entry)
    /\ response.comparison[2].entry.winner = "TDP"
    /\ response.comparison[2].entry.party_results["TDP"].share_pct > 0

====
